---- MODULE Spec2Model ----
(***************************************************************************)
(* Backend process supervisor of sentinel-web (src-tauri/src/main.rs).     *)
(*                                                                         *)
(* Two threads of control share the slot `backend.child` behind a Mutex:   *)
(*   - the startup task spawned by setup() on the async runtime            *)
(*     (launch_backend, store the child, wait_for_backend(30));            *)
(*   - the run() callback on the main thread, which calls kill_backend     *)
(*     for every RunEvent::ExitRequested.                                  *)
(* Each thread is a program counter (stpc, epc); one action is one step    *)
(* between two points where the other thread can interleave.               *)
(***************************************************************************)
EXTENDS Naturals, FiniteSets, Sequences, TLC

\* ------------------------------------------------------------------ bounds
\* Number of ExitRequested events the shell delivers to the run() callback
\* before the host process is gone.
MaxExits == 2

\* ------------------------------------------------------- program constants
\* wait_for_backend(30)
MaxAttempts == 30

\* Option<Child>::None, and the handle of the n-th spawned child is n >= 1.
None == 0

VARIABLES
    host,       \* "starting" | "running" | "exited": the host application
    stpc,       \* position of the startup task
    child,      \* the task's local `child` (Ok(child) of launch_backend)
    launchRes,  \* "none" | "Ok" | "Err": result of launch_backend
    i,          \* loop variable of wait_for_backend
    waitRes,    \* "none" | "Ok" | "Err": result of wait_for_backend
    slot,       \* backend.child : Option<Child>
    lock,       \* holder of the Mutex: "free" | "startup" | "exit"
    epc,        \* position of the exit handler
    taken,      \* kill_backend's local `child` (taken out of the slot)
    proc,       \* OS process: "none"|"running"|"exited"|"killed"|"reaped"
    spawnCalls, \* calls of Command::spawn
    stores,     \* executions of the startup store
    probes,     \* GET /health requests sent
    failures,   \* probes that did not return a success status
    sleeps,     \* completed 500 ms sleeps
    okAt,       \* attempt number (i + 1) of the successful probe, 0 if none
    kills,      \* calls of Child::kill
    waits,      \* calls of Child::wait
    exits,      \* ExitRequested events whose handler has started
    exitsDone,  \* ExitRequested events whose handler has returned
    killRes,    \* "none" | "Ok" | "Err": result of child.kill()
    probesAtReap, \* probes sent so far when child.wait() returned
    errs,       \* error outcomes that occurred (launch, probe, timeout, kill)
    diags       \* diagnostics printed for an error outcome

vars == << host, stpc, child, launchRes, i, waitRes, slot, lock, epc, taken,
           proc, spawnCalls, stores, probes, failures, sleeps, okAt, kills,
           waits, exits, exitsDone, killRes, probesAtReap, errs, diags >>

startupVars == << stpc, child, launchRes, i, waitRes, spawnCalls, stores,
                  probes, failures, sleeps, okAt >>
exitVars    == << epc, taken, kills, waits, exits, exitsDone, killRes,
                  probesAtReap >>

\* Outcomes of client.get(health_url).send().await
ProbeOutcomes == {"Success", "NonSuccess", "TransportError"}

\* let backend = Arc::new(Mutex::new(BackendProcess { child: None }));
Init ==
    /\ host = "starting"
    /\ stpc = "unspawned"
    /\ child = None
    /\ launchRes = "none"
    /\ i = 0
    /\ waitRes = "none"
    /\ slot = None
    /\ lock = "free"
    /\ epc = "idle"
    /\ taken = None
    /\ proc = "none"
    /\ spawnCalls = 0
    /\ stores = 0
    /\ probes = 0
    /\ failures = 0
    /\ sleeps = 0
    /\ okAt = 0
    /\ kills = 0
    /\ waits = 0
    /\ exits = 0
    /\ exitsDone = 0
    /\ killRes = "none"
    /\ probesAtReap = 0
    /\ errs = 0
    /\ diags = 0

\* ------------------------------------------------------------ startup task

\* .setup(move |app| { ... async_runtime::spawn(async move {...}); Ok(()) })
Setup ==
    /\ host = "starting"
    /\ host' = "running"
    /\ stpc' = "start"
    /\ UNCHANGED << child, launchRes, i, waitRes, slot, lock, proc,
                    spawnCalls, stores, probes, failures, sleeps, okAt,
                    errs, diags >>
    /\ UNCHANGED exitVars

\* launch_backend up to the spawn call: pick the command and the path.
LaunchBegin ==
    /\ host = "running"
    /\ stpc = "start"
    /\ stpc' = "launching"
    /\ UNCHANGED << host, child, launchRes, i, waitRes, slot, lock, proc,
                    spawnCalls, stores, probes, failures, sleeps, okAt,
                    errs, diags >>
    /\ UNCHANGED exitVars

\* Mutation of LaunchBackend: the readiness loop runs although the launch failed.
LaunchBackend_ProbesOnFailure ==
    /\ host = "running"
    /\ stpc = "launching"
    /\ spawnCalls' = spawnCalls + 1
    /\ \E ok \in BOOLEAN :
         IF ok
         THEN /\ launchRes' = "Ok"
              /\ child' = spawnCalls + 1
              /\ proc' = "running"
              /\ stpc' = "lock"
              /\ host' = host
              /\ UNCHANGED << errs, diags >>
         ELSE /\ launchRes' = "Err"
              /\ stpc' = "probe"
              /\ host' = host
              /\ errs' = errs + 1
              /\ diags' = diags + 1
              /\ UNCHANGED << child, proc >>
    /\ UNCHANGED << i, waitRes, slot, lock, stores, probes, failures,
                    sleeps, okAt >>
    /\ UNCHANGED exitVars

\* Mutation of LaunchBackend: a failed launch is tried again.
LaunchBackend_Retry ==
    /\ host = "running"
    /\ stpc = "launching"
    /\ spawnCalls' = spawnCalls + 1
    /\ \E ok \in BOOLEAN :
         IF ok
         THEN /\ launchRes' = "Ok"
              /\ child' = spawnCalls + 1
              /\ proc' = "running"
              /\ stpc' = "lock"
              /\ host' = host
              /\ UNCHANGED << errs, diags >>
         ELSE /\ launchRes' = "Err"
              /\ stpc' = "launching"
              /\ host' = host
              /\ errs' = errs + 1
              /\ diags' = diags + 1
              /\ UNCHANGED << child, proc >>
    /\ UNCHANGED << i, waitRes, slot, lock, stores, probes, failures,
                    sleeps, okAt >>
    /\ UNCHANGED exitVars

\* Mutation of LaunchBackend: a failed launch takes the host down.
LaunchBackend_Fatal ==
    /\ host = "running"
    /\ stpc = "launching"
    /\ spawnCalls' = spawnCalls + 1
    /\ \E ok \in BOOLEAN :
         IF ok
         THEN /\ launchRes' = "Ok"
              /\ child' = spawnCalls + 1
              /\ proc' = "running"
              /\ stpc' = "lock"
              /\ host' = host
              /\ UNCHANGED << errs, diags >>
         ELSE /\ launchRes' = "Err"
              /\ stpc' = "done"
              /\ host' = "exited"
              /\ errs' = errs + 1
              /\ diags' = diags + 1
              /\ UNCHANGED << child, proc >>
    /\ UNCHANGED << i, waitRes, slot, lock, stores, probes, failures,
                    sleeps, okAt >>
    /\ UNCHANGED exitVars

\* Mutation of LaunchBackend: the readiness loop starts before the store.
LaunchBackend_ProbesBeforeStore ==
    /\ host = "running"
    /\ stpc = "launching"
    /\ spawnCalls' = spawnCalls + 1
    /\ \E ok \in BOOLEAN :
         IF ok
         THEN /\ launchRes' = "Ok"
              /\ child' = spawnCalls + 1
              /\ proc' = "running"
              /\ stpc' = "probe"
              /\ UNCHANGED << errs, diags >>
         ELSE /\ launchRes' = "Err"
              /\ stpc' = "done"
              /\ errs' = errs + 1
              /\ diags' = diags + 1
              /\ UNCHANGED << child, proc >>
    /\ UNCHANGED << host, i, waitRes, slot, lock, stores, probes, failures,
                    sleeps, okAt >>
    /\ UNCHANGED exitVars

\* Command::spawn() and the match on its result in the startup task.
LaunchBackend ==
    /\ host = "running"
    /\ stpc = "launching"
    /\ spawnCalls' = spawnCalls + 1
    /\ \E ok \in BOOLEAN :
         IF ok
         THEN /\ launchRes' = "Ok"
              /\ child' = spawnCalls + 1
              /\ proc' = "running"
              /\ stpc' = "lock"
              /\ UNCHANGED << errs, diags >>
         ELSE /\ launchRes' = "Err"
              /\ stpc' = "done"
              /\ errs' = errs + 1
              /\ diags' = diags + 1
              /\ UNCHANGED << child, proc >>
    /\ UNCHANGED << host, i, waitRes, slot, lock, stores, probes, failures,
                    sleeps, okAt >>
    /\ UNCHANGED exitVars

\* backend_clone.lock().unwrap()
StartupLock ==
    /\ host = "running"
    /\ stpc = "lock"
    /\ lock = "free"
    /\ lock' = "startup"
    /\ stpc' = "store"
    /\ UNCHANGED << host, child, launchRes, i, waitRes, slot, proc,
                    spawnCalls, stores, probes, failures, sleeps, okAt,
                    errs, diags >>
    /\ UNCHANGED exitVars

\* Mutation of StartupStore: the guard outlives the statement.
StartupStore_KeepsLock ==
    /\ host = "running"
    /\ stpc = "store"
    /\ slot' = child
    /\ child' = None
    /\ stores' = stores + 1
    /\ lock' = lock
    /\ i' = 0
    /\ stpc' = "probe"
    /\ UNCHANGED << host, launchRes, waitRes, proc, spawnCalls, probes,
                    failures, sleeps, okAt, errs, diags >>
    /\ UNCHANGED exitVars

\* .child = Some(child);   the guard is dropped at the end of the statement
StartupStore ==
    /\ host = "running"
    /\ stpc = "store"
    /\ slot' = child
    /\ child' = None
    /\ stores' = stores + 1
    /\ lock' = "free"
    /\ i' = 0
    /\ stpc' = "probe"
    /\ UNCHANGED << host, launchRes, waitRes, proc, spawnCalls, probes,
                    failures, sleeps, okAt, errs, diags >>
    /\ UNCHANGED exitVars

\* Mutation of Probe: the success arm does not return from the loop.
Probe_NoReturn ==
    /\ host = "running"
    /\ stpc = "probe"
    /\ i < MaxAttempts
    /\ probes' = probes + 1
    /\ stpc' = "sleep"
    /\ \E r \in ProbeOutcomes :
         IF r = "Success"
         THEN /\ okAt' = i + 1
              /\ waitRes' = "Ok"
              /\ UNCHANGED << failures, errs, diags >>
         ELSE /\ failures' = failures + 1
              /\ errs' = errs + 1
              /\ diags' = diags + 1
              /\ UNCHANGED << okAt, waitRes >>
    /\ UNCHANGED << host, child, launchRes, i, slot, lock, proc, spawnCalls,
                    stores, sleeps >>
    /\ UNCHANGED exitVars

\* Mutation of Probe: the handle is let go once the backend answers.
Probe_DropsHandleWhenReady ==
    /\ host = "running"
    /\ stpc = "probe"
    /\ i < MaxAttempts
    /\ probes' = probes + 1
    /\ \E r \in ProbeOutcomes :
         IF r = "Success"
         THEN /\ okAt' = i + 1
              /\ waitRes' = "Ok"
              /\ stpc' = "done"
              /\ slot' = None
              /\ UNCHANGED << failures, errs, diags >>
         ELSE /\ failures' = failures + 1
              /\ errs' = errs + 1
              /\ diags' = diags + 1
              /\ stpc' = "sleep"
              /\ UNCHANGED << okAt, waitRes, slot >>
    /\ UNCHANGED << host, child, launchRes, i, lock, proc, spawnCalls,
                    stores, sleeps >>
    /\ UNCHANGED exitVars

\* Mutation of Probe: no delay after the last attempt.
Probe_NoDelayAfterLast ==
    /\ host = "running"
    /\ stpc = "probe"
    /\ i < MaxAttempts
    /\ probes' = probes + 1
    /\ \E r \in ProbeOutcomes :
         IF r = "Success"
         THEN /\ okAt' = i + 1
              /\ waitRes' = "Ok"
              /\ stpc' = "done"
              /\ UNCHANGED << failures, errs, diags, i >>
         ELSE /\ failures' = failures + 1
              /\ errs' = errs + 1
              /\ diags' = diags + 1
              /\ IF i + 1 = MaxAttempts
                 THEN stpc' = "probe" /\ i' = i + 1
                 ELSE stpc' = "sleep" /\ i' = i
              /\ UNCHANGED << okAt, waitRes >>
    /\ UNCHANGED << host, child, launchRes, slot, lock, proc, spawnCalls,
                    stores, sleeps >>
    /\ UNCHANGED exitVars

\* One iteration of the loop of wait_for_backend up to the sleep.
Probe ==
    /\ host = "running"
    /\ stpc = "probe"
    /\ i < MaxAttempts
    /\ probes' = probes + 1
    /\ \E r \in ProbeOutcomes :
         IF r = "Success"
         THEN /\ okAt' = i + 1
              /\ waitRes' = "Ok"
              /\ stpc' = "done"
              /\ UNCHANGED << failures, errs, diags >>
         ELSE /\ failures' = failures + 1
              /\ errs' = errs + 1
              /\ diags' = diags + 1
              /\ stpc' = "sleep"
              /\ UNCHANGED << okAt, waitRes >>
    /\ UNCHANGED << host, child, launchRes, i, slot, lock, proc, spawnCalls,
                    stores, sleeps >>
    /\ UNCHANGED exitVars

\* Mutation of Sleep: the loop gives up once the handle has left the slot.
Sleep_Cancelled ==
    /\ host = "running"
    /\ stpc = "sleep"
    /\ sleeps' = sleeps + 1
    /\ i' = i + 1
    /\ stpc' = IF slot = None THEN "done" ELSE "probe"
    /\ UNCHANGED << host, child, launchRes, waitRes, slot, lock, proc,
                    spawnCalls, stores, probes, failures, okAt, errs, diags >>
    /\ UNCHANGED exitVars

\* tokio::time::sleep(Duration::from_millis(500)).await; next iteration
Sleep ==
    /\ host = "running"
    /\ stpc = "sleep"
    /\ sleeps' = sleeps + 1
    /\ i' = i + 1
    /\ stpc' = "probe"
    /\ UNCHANGED << host, child, launchRes, waitRes, slot, lock, proc,
                    spawnCalls, stores, probes, failures, okAt, errs, diags >>
    /\ UNCHANGED exitVars

\* Mutation of Exhausted: the handle is discarded on the timeout.
Exhausted_DropsHandle ==
    /\ host = "running"
    /\ stpc = "probe"
    /\ i >= MaxAttempts
    /\ waitRes' = "Err"
    /\ errs' = errs + 1
    /\ diags' = diags + 1
    /\ stpc' = "done"
    /\ slot' = None
    /\ UNCHANGED << host, child, launchRes, i, lock, proc, spawnCalls,
                    stores, probes, failures, sleeps, okAt >>
    /\ UNCHANGED exitVars

\* Mutation of Exhausted: the startup sequence starts over on the timeout.
Exhausted_Retry ==
    /\ host = "running"
    /\ stpc = "probe"
    /\ i >= MaxAttempts
    /\ waitRes' = "Err"
    /\ errs' = errs + 1
    /\ diags' = diags + 1
    /\ stpc' = "launching"
    /\ UNCHANGED << host, child, launchRes, i, slot, lock, proc, spawnCalls,
                    stores, probes, failures, sleeps, okAt >>
    /\ UNCHANGED exitVars

\* The range 0..max_attempts is exhausted: Err(..), reported by the task.
Exhausted ==
    /\ host = "running"
    /\ stpc = "probe"
    /\ i >= MaxAttempts
    /\ waitRes' = "Err"
    /\ errs' = errs + 1
    /\ diags' = diags + 1
    /\ stpc' = "done"
    /\ UNCHANGED << host, child, launchRes, i, slot, lock, proc, spawnCalls,
                    stores, probes, failures, sleeps, okAt >>
    /\ UNCHANGED exitVars

\* ------------------------------------------------------------ exit handler

\* if let tauri::RunEvent::ExitRequested { .. } = event { println!(...)
ExitRequested ==
    /\ host = "running"
    /\ epc = "idle"
    /\ exits < MaxExits
    /\ exits' = exits + 1
    /\ epc' = "lock"
    /\ UNCHANGED << host, slot, lock, proc, errs, diags, taken, kills, waits,
                    exitsDone, killRes >>
    /\ UNCHANGED probesAtReap
    /\ UNCHANGED startupVars

\* backend.lock().unwrap()
ExitLock ==
    /\ epc = "lock"
    /\ lock = "free"
    /\ lock' = "exit"
    /\ epc' = "take"
    /\ UNCHANGED << host, slot, proc, errs, diags, taken, kills, waits,
                    exits, exitsDone, killRes >>
    /\ UNCHANGED probesAtReap
    /\ UNCHANGED startupVars

\* Mutation of KillBackendTake: kill is attempted whatever the slot holds.
KillBackendTake_Unconditional ==
    /\ epc = "take"
    /\ slot' = None
    /\ taken' = slot
    /\ epc' = "kill"
    /\ UNCHANGED << lock, exitsDone >>
    /\ UNCHANGED << host, proc, errs, diags, kills, waits, exits, killRes >>
    /\ UNCHANGED probesAtReap
    /\ UNCHANGED startupVars

\* Mutation of KillBackendTake: the handle is borrowed, not taken.
KillBackendTake_Borrow ==
    /\ epc = "take"
    /\ slot' = slot
    /\ IF slot = None
       THEN /\ epc' = "idle"
            /\ lock' = "free"
            /\ exitsDone' = exitsDone + 1
            /\ UNCHANGED taken
       ELSE /\ taken' = slot
            /\ epc' = "kill"
            /\ UNCHANGED << lock, exitsDone >>
    /\ UNCHANGED << host, proc, errs, diags, kills, waits, exits, killRes >>
    /\ UNCHANGED probesAtReap
    /\ UNCHANGED startupVars

\* if let Some(mut child) = backend.child.take() { ... }
KillBackendTake ==
    /\ epc = "take"
    /\ slot' = None
    /\ IF slot = None
       THEN /\ epc' = "idle"
            /\ lock' = "free"
            /\ exitsDone' = exitsDone + 1
            /\ UNCHANGED taken
       ELSE /\ taken' = slot
            /\ epc' = "kill"
            /\ UNCHANGED << lock, exitsDone >>
    /\ UNCHANGED << host, proc, errs, diags, kills, waits, exits, killRes >>
    /\ UNCHANGED probesAtReap
    /\ UNCHANGED startupVars

\* Mutation of KillBackendKill: no wait after a successful kill.
KillBackendKill_NoWait ==
    /\ epc = "kill"
    /\ kills' = kills + 1
    /\ taken' = None
    /\ epc' = "idle"
    /\ lock' = "free"
    /\ exitsDone' = exitsDone + 1
    /\ \E ok \in BOOLEAN :
         IF ok
         THEN /\ killRes' = "Ok"
              /\ proc' = "killed"
              /\ UNCHANGED << errs, diags >>
         ELSE /\ killRes' = "Err"
              /\ errs' = errs + 1
              /\ diags' = diags + 1
              /\ UNCHANGED proc
    /\ UNCHANGED << host, slot, waits, exits >>
    /\ UNCHANGED probesAtReap
    /\ UNCHANGED startupVars

\* Mutation of KillBackendKill: a failed kill puts the handle back.
KillBackendKill_PutsBack ==
    /\ epc = "kill"
    /\ kills' = kills + 1
    /\ \E ok \in BOOLEAN :
         IF ok
         THEN /\ killRes' = "Ok"
              /\ proc' = "killed"
              /\ epc' = "wait"
              /\ UNCHANGED << taken, lock, exitsDone, errs, diags, slot >>
         ELSE /\ killRes' = "Err"
              /\ errs' = errs + 1
              /\ diags' = diags + 1
              /\ slot' = taken
              /\ taken' = None
              /\ epc' = "idle"
              /\ lock' = "free"
              /\ exitsDone' = exitsDone + 1
              /\ UNCHANGED proc
    /\ UNCHANGED << host, waits, exits >>
    /\ UNCHANGED probesAtReap
    /\ UNCHANGED startupVars

\* match child.kill() { Ok(_) => ..., Err(e) => eprintln!(...) }
KillBackendKill ==
    /\ epc = "kill"
    /\ kills' = kills + 1
    /\ \E ok \in BOOLEAN :
         IF ok
         THEN /\ killRes' = "Ok"
              /\ proc' = "killed"
              /\ epc' = "wait"
              /\ UNCHANGED << taken, lock, exitsDone, errs, diags >>
         ELSE /\ killRes' = "Err"
              /\ errs' = errs + 1
              /\ diags' = diags + 1
              /\ taken' = None
              /\ epc' = "idle"
              /\ lock' = "free"
              /\ exitsDone' = exitsDone + 1
              /\ UNCHANGED proc
    /\ UNCHANGED << host, slot, waits, exits >>
    /\ UNCHANGED probesAtReap
    /\ UNCHANGED startupVars

\* let _ = child.wait(); println!(...)   then the guard is dropped
KillBackendWait ==
    /\ epc = "wait"
    /\ waits' = waits + 1
    /\ proc' = "reaped"
    /\ taken' = None
    /\ epc' = "idle"
    /\ lock' = "free"
    /\ exitsDone' = exitsDone + 1
    /\ probesAtReap' = probes
    /\ UNCHANGED << host, slot, errs, diags, kills, exits, killRes >>
    /\ UNCHANGED startupVars

\* ------------------------------------------------------------- environment

\* The event loop ends after an exit request and the host process is gone;
\* the startup task stops wherever it is.
HostExit ==
    /\ host = "running"
    /\ epc = "idle"
    /\ exitsDone >= 1
    /\ host' = "exited"
    /\ UNCHANGED << slot, lock, proc, errs, diags >>
    /\ UNCHANGED startupVars
    /\ UNCHANGED exitVars

\* The backend process ends on its own (it is a zombie until waited for).
BackendExits ==
    /\ proc = "running"
    /\ proc' = "exited"
    /\ UNCHANGED << host, slot, lock, errs, diags >>
    /\ UNCHANGED startupVars
    /\ UNCHANGED exitVars

Next ==
    \/ Setup
    \/ LaunchBegin
    \/ LaunchBackend
    \/ StartupLock
    \/ StartupStore
    \/ Probe
    \/ Sleep
    \/ Exhausted
    \/ ExitRequested
    \/ ExitLock
    \/ KillBackendTake
    \/ KillBackendKill
    \/ KillBackendWait
    \/ HostExit
    \/ BackendExits

Spec == Init /\ [][Next]_vars

\* The async runtime keeps running the startup task while the host lives and
\* every awaited call returns; the exit handler runs to its end on the main
\* thread once it has the lock.
FairSpec ==
    /\ Spec
    /\ WF_vars(LaunchBegin)
    /\ WF_vars(LaunchBackend)
    /\ WF_vars(StartupLock)
    /\ WF_vars(StartupStore)
    /\ WF_vars(Probe)
    /\ WF_vars(Sleep)
    /\ WF_vars(Exhausted)
    /\ WF_vars(ExitLock)
    /\ WF_vars(KillBackendTake)
    /\ WF_vars(KillBackendKill)
    /\ WF_vars(KillBackendWait)

\* ------------------------------------------------------------------ claims

\* The exit handler's kill_backend returns in this step.
ShutdownReturns == exitsDone' = exitsDone + 1

\* C1: once the exit handler's shutdown has returned, no backend process
\* spawned by the supervisor is still running and no handle is stored in the
\* slot, in that state and in every later one, for every interleaving of
\* the startup task with the exit handler.
C1_NoBackendAfterShutdown ==
    exitsDone >= 1 => (proc # "running" /\ slot = None)

\* C2 (as stated): whenever kill_backend runs with a handle in the slot, by
\* the time it returns kill has been issued and the process has been reaped.
C2_AlwaysReaped ==
    [][(ShutdownReturns /\ taken # None)
         => (kills' = 1 /\ waits' = 1 /\ proc' = "reaped")]_vars

\* C2 (amended): whenever kill_backend runs with a handle in the slot, kill
\* has been issued for that process by the time it returns, and when that
\* kill succeeded the process has been waited for (reaped) before it returns;
\* when the kill failed it returns without waiting.
C2_KilledAndReapedIfKillOk ==
    [][(ShutdownReturns /\ taken # None)
         => /\ kills' = 1
            /\ killRes' \in {"Ok", "Err"}
            /\ killRes' = "Ok" => (waits' = 1 /\ proc' = "reaped")
            /\ killRes' = "Err" => waits' = 0]_vars

\* A shutdown that found the handle has killed and reaped the process.
C2_Witness ==
    exitsDone >= 1 /\ killRes = "Ok" /\ waits = 1 /\ proc = "reaped"
      /\ epc = "idle"

\* C3: when the first success status comes on attempt k (1 <= k <= 30),
\* after k - 1 failed attempts, the loop has made exactly k probes, returns
\* Ok, and sends no probe afterwards.
C3_ExactlyKProbes ==
    /\ [](waitRes = "Ok" => /\ okAt \in 1..MaxAttempts
                            /\ probes = okAt
                            /\ failures = okAt - 1
                            /\ stpc = "done")
    /\ [][waitRes = "Ok" => probes' = probes]_vars

\* Success on the last allowed attempt.
C3_Witness ==
    waitRes = "Ok" /\ okAt = MaxAttempts /\ failures = MaxAttempts - 1

\* C4: when no probe ever succeeds, the loop makes exactly 30 probes and then
\* reports the timeout; if no shutdown has started, the handle stored at
\* startup is still in the slot and the supervisor has not killed the process.
C4_TimeoutKeepsHandle ==
    waitRes = "Err" =>
        /\ probes = MaxAttempts
        /\ failures = MaxAttempts
        /\ okAt = 0
        /\ stpc = "done"
        /\ exits = 0 => (slot # None /\ kills = 0 /\ waits = 0
                          /\ proc \in {"running", "exited"})

\* The timeout was reported and no shutdown has run.
C4_Witness == waitRes = "Err" /\ exits = 0 /\ slot # None /\ proc = "running"

\* C5: kill_backend on an empty slot issues no kill and no wait, changes
\* nothing but its own return (slot, process, startup task and diagnostics
\* are as before), and returns; a second shutdown after a first is such a
\* no-op.
C5_EmptyShutdownNoOp ==
    /\ [][(epc = "take" /\ slot = None /\ epc' # epc)
            => /\ ShutdownReturns
               /\ epc' = "idle"
               /\ lock' = "free"
               /\ UNCHANGED << host, slot, proc, taken, kills, waits, killRes,
                               exits, errs, diags >>
               /\ UNCHANGED startupVars]_vars
    /\ [](kills <= 1 /\ waits <= 1)

\* A second shutdown has returned after a first one that killed the backend.
C5_Witness == exitsDone = 2 /\ kills = 1 /\ waits = 1 /\ slot = None

\* C6: after a failed launch the launch error has been reported, the slot is
\* empty in every later state, no probe is ever sent, and a later shutdown
\* issues no kill and no wait.
C6_LaunchFailure ==
    launchRes = "Err" =>
        /\ errs = 1 /\ diags = 1
        /\ slot = None /\ child = None
        /\ stores = 0
        /\ probes = 0
        /\ kills = 0 /\ waits = 0
        /\ proc = "none"
        /\ stpc = "done"

\* The launch failed and a shutdown has run afterwards.
C6_Witness == launchRes = "Err" /\ exitsDone >= 1 /\ epc = "idle"

\* C7: the startup sequence calls spawn exactly once: never a second time,
\* whether the launch failed, a probe failed or the loop timed out.
C7_OneSpawn ==
    /\ spawnCalls <= 1
    /\ stpc \in {"lock", "store", "probe", "sleep", "done"} => spawnCalls = 1
    /\ stpc \in {"unspawned", "start", "launching"} => spawnCalls = 0

\* The loop timed out after 30 failed probes and still one spawn was made.
C7_Witness == waitRes = "Err" /\ failures = MaxAttempts /\ spawnCalls = 1

\* C8: the slot holds at most one handle; the startup store happens at most
\* once and only into an empty slot; the slot changes only from empty to
\* stored (startup store) and from stored to empty (shutdown take).
C8_SlotTransitions ==
    /\ [](slot \in {None, 1} /\ stores <= 1)
    /\ [][stores' # stores => (slot = None /\ slot' # None)]_vars
    /\ [][slot' # slot =>
            \/ slot = None /\ slot' # None /\ stpc = "store"
                 /\ stores' = stores + 1
            \/ slot # None /\ slot' = None /\ epc = "take"]_vars

\* The handle was stored and later taken by a shutdown.
C8_Witness == stores = 1 /\ slot = None /\ kills = 1

\* C9: no error outcome of the supervisor (launch failure, failed probe,
\* readiness timeout, failed kill) stops the host: the step in which the
\* error occurs prints its diagnostic and leaves the host as it is, setup
\* completes whatever the backend does, and the host stops running only
\* after an exit event has been handled.
C9_ErrorsNeverStopHost ==
    /\ [](errs = diags)
    /\ [][errs' # errs => (host' = host /\ diags' = diags + 1)]_vars
    /\ [][host # host' =>
            \/ host = "starting" /\ host' = "running" /\ errs = 0
            \/ host = "running" /\ host' = "exited" /\ exitsDone >= 1]_vars

\* Failed probes, a timeout and a failed kill, and the host is still running.
C9_Witness ==
    host = "running" /\ waitRes = "Err" /\ killRes = "Err"
      /\ errs = MaxAttempts + 2

\* The supervised process as the supervisor sees it, read off the state:
\* Terminating from the moment kill_backend has taken the handle until the
\* process is reaped (a failed kill leaves it there), Terminated once
\* child.wait() has returned.
View ==
    IF stpc \in {"unspawned", "start"} THEN "NotStarted"
    ELSE IF stpc = "launching" THEN "Launching"
    ELSE IF launchRes = "Err" THEN "LaunchFailed"
    ELSE IF proc = "reaped" THEN "Terminated"
    ELSE IF stores = 1 /\ slot = None THEN "Terminating"
    ELSE IF waitRes = "Ok" THEN "ReadyReported"
    ELSE IF waitRes = "Err" THEN "TimedOut"
    ELSE "Running"

ChainEdges ==
    { << "NotStarted", "Launching" >>,
      << "Launching", "Running" >>,
      << "Launching", "LaunchFailed" >>,
      << "Running", "ReadyReported" >>,
      << "Running", "TimedOut" >>,
      << "ReadyReported", "Terminating" >>,
      << "TimedOut", "Terminating" >>,
      << "Terminating", "Terminated" >> }

\* C10 (as stated): the view changes only along NotStarted -> Launching ->
\* Running -> (ReadyReported | TimedOut) -> Terminating -> Terminated, with
\* Terminating entered only from ReadyReported or TimedOut; Terminated has
\* no outgoing transition; a launch failure never reaches Running.
C10_ChainOnly ==
    /\ [][View' # View => << View, View' >> \in ChainEdges]_vars
    /\ [][View = "Terminated" => View' = "Terminated"]_vars
    /\ [][View = "LaunchFailed" => View' = "LaunchFailed"]_vars

\* C10 (amended): as above, except that Terminating is also entered from
\* Running, when the exit event is handled while the readiness loop is
\* still probing.
C10_ChainOrEarlyExit ==
    /\ [][View' # View =>
            << View, View' >> \in
                ChainEdges \cup { << "Running", "Terminating" >> }]_vars
    /\ [][View = "Terminated" => View' = "Terminated"]_vars
    /\ [][View = "LaunchFailed" => View' = "LaunchFailed"]_vars

\* The backend was terminated while the readiness loop had not finished.
C10_Witness == View = "Terminated" /\ waitRes = "none" /\ stpc = "sleep"


\* C11: when child.kill() fails, the error is reported in that step and
\* shutdown returns at once: no wait is made and no second kill is attempted,
\* then or by a later shutdown, because the handle is already out of the slot.
C11_FailedKillGivesUp ==
    /\ [][(killRes' = "Err" /\ killRes # "Err")
            => /\ ShutdownReturns
               /\ diags' = diags + 1
               /\ waits' = waits
               /\ slot' = None
               /\ epc' = "idle"]_vars
    /\ [](killRes = "Err" =>
            /\ kills = 1
            /\ waits = 0
            /\ slot = None
            /\ taken = None
            /\ proc # "reaped")

\* The kill failed and a later shutdown has run as well.
C11_Witness == killRes = "Err" /\ exitsDone = 2 /\ epc = "idle"


\* The readiness loop is in progress.
InLoop == stpc \in {"probe", "sleep"}

\* C12: the readiness loop is left only by a successful probe or after its
\* 30 attempts; no step of the exit handler changes the loop's state, and
\* with the handle taken and the process killed the next probe is still
\* sent; when every probe returns, the loop ends (within 30 probes) unless
\* the host process is gone first.
C12_LoopEndsOnlyByResult ==
    /\ [](probes <= MaxAttempts /\ i <= MaxAttempts)
    /\ [][(InLoop /\ ~InLoop')
            => /\ stpc' = "done"
               /\ \/ waitRes' = "Ok" /\ probes' = probes + 1
                  \/ waitRes' = "Err" /\ probes = MaxAttempts
                       /\ probes' = probes]_vars
    /\ [][epc' # epc => UNCHANGED startupVars]_vars
    /\ [](host = "running" /\ stpc = "probe" /\ i < MaxAttempts
            => ENABLED Probe)
    /\ (InLoop ~> (stpc = "done" \/ host = "exited"))

\* The backend was killed and reaped before the first probe and the loop
\* still made all its probes.
C12_Witness ==
    waits = 1 /\ probesAtReap = 0 /\ waitRes = "Err"
      /\ probes = MaxAttempts /\ host = "running"


\* kill_backend is running with the guard it was passed.
InKillBackend == epc \in {"take", "kill", "wait"}

\* C13: the startup task holds the lock exactly for its store, never during
\* a probe or a sleep; the exit handler holds it exactly for take, kill and
\* wait; the two never hold it together, and an exit handler that has
\* started always gets the lock and returns.
C13_LockDiscipline ==
    /\ [](lock = "startup" <=> stpc = "store")
    /\ [](lock = "exit" <=> InKillBackend)
    /\ [](~(stpc = "store" /\ InKillBackend))
    /\ [][(probes' # probes \/ sleeps' # sleeps)
            => (lock # "startup" /\ lock' # "startup")]_vars
    /\ (epc # "idle" ~> epc = "idle")

\* The exit handler waits for the lock while the startup task stores.
C13_Witness == epc = "lock" /\ lock = "startup" /\ stpc = "store"


\* C14: no health probe is sent before the startup store has completed.
C14_StoreBeforeProbe ==
    /\ [](probes >= 1 => stores = 1)
    /\ [][probes' # probes => (stores = 1 /\ lock # "startup")]_vars
    /\ [][stores' # stores => probes = 0]_vars

\* The first probe has been sent, after the store.
C14_Witness == probes = 1 /\ stores = 1 /\ launchRes = "Ok"

\* C15: a probe, the delay after it, and the return of Ok or of the timeout
\* leave the slot, the lock, the child process and the exit handler as they
\* are; the slot is written only by the startup store and the shutdown take.
C15_LoopLeavesSlotAlone ==
    /\ [][(probes' # probes \/ sleeps' # sleeps \/ waitRes' # waitRes)
            => /\ UNCHANGED << slot, lock, proc, host, child >>
               /\ UNCHANGED exitVars]_vars
    /\ [][slot' # slot => (stores' # stores \/ epc = "take")]_vars

\* The loop reported Ready after some delays and the handle is still stored.
C15_Witness == waitRes = "Ok" /\ sleeps >= 1 /\ slot # None /\ proc = "running"

\* C16: every failed attempt is followed by one delay, the 30th included, so
\* the timeout is reported after 30 delays; a successful attempt is followed
\* by none; the delays made equal the failed attempts, the one whose delay is
\* still running excepted.
C16_OneDelayPerFailure ==
    /\ [](sleeps = i)
    /\ [](stpc = "sleep" => failures = sleeps + 1)
    /\ [](stpc # "sleep" => failures = sleeps)
    /\ [](waitRes = "Err" => sleeps = MaxAttempts)
    /\ [](waitRes = "Ok" => sleeps = okAt - 1)
    /\ [][waitRes # "none" => sleeps' = sleeps]_vars

\* The timeout was reported after the 30th delay.
C16_Witness == waitRes = "Err" /\ sleeps = MaxAttempts /\ failures = MaxAttempts

====
